---------------------------- MODULE Spec2Model ----------------------------
(***************************************************************************)
(* A model of mongolier/views.py: the three class based views DetailView,  *)
(* PagelessListView and ListView over a MongoDB collection.                *)
(*                                                                         *)
(* Python values are modelled as follows.  None is the empty tuple and a   *)
(* value v of an attribute that may be None is the 1-tuple <<v>>.  A dict  *)
(* is a function from its keys (strings).  A str that the code parses or   *)
(* formats is a sequence of one-character strings.  A raised exception is  *)
(* the "raised" field of the record an operation returns.  Arithmetic is   *)
(* that of Python 2 (the module's language: u'' literals, range() used as  *)
(* a list), where / on two ints is floor division.                         *)
(***************************************************************************)
EXTENDS Integers, Sequences, FiniteSets, TLC

\* Bounds of the model.
MaxDocs == 3
MaxLimit == 3
MaxPage == 3

VARIABLES collection, query, sort, pagination_limit, request, view, response

vars == <<collection, query, sort, pagination_limit, request, view, response>>

---------------------------------------------------------------------------
\* Python values

None == <<>>
Some(v) == <<v>>

EmptyDict == [k \in {} |-> ""]

\* dict.update: the keys of b override those of a.
Update(a, b) ==
    [k \in (DOMAIN a) \cup (DOMAIN b) |-> IF k \in DOMAIN b THEN b[k] ELSE a[k]]

\* range(lo, hi) of Python 2: the list lo, lo+1, ..., hi-1.
Range(lo, hi) == [i \in 1..(IF hi > lo THEN hi - lo ELSE 0) |-> lo + i - 1]

DigitChars == <<"0", "1", "2", "3", "4", "5", "6", "7", "8", "9">>

DigitValue(c) == CHOOSE d \in 0..9 : DigitChars[d + 1] = c

IsDigit(c) == \E d \in 0..9 : DigitChars[d + 1] = c

RECURSIVE StrNat(_)
StrNat(n) == IF n < 10 THEN <<DigitChars[n + 1]>>
             ELSE StrNat(n \div 10) \o <<DigitChars[(n % 10) + 1]>>

\* '%s' % n and str(n) for an int n.
Str(n) == IF n < 0 THEN <<"-">> \o StrNat(0 - n) ELSE StrNat(n)

\* The digits of an int literal after its optional sign.
Unsigned(s) == IF Len(s) > 0 /\ s[1] \in {"-", "+"} THEN Tail(s) ELSE s

\* int(s) returns a value (otherwise it raises ValueError).
IsIntLiteral(s) ==
    /\ Len(Unsigned(s)) > 0
    /\ \A i \in 1..Len(Unsigned(s)) : IsDigit(Unsigned(s)[i])

RECURSIVE NatOf(_)
NatOf(ds) == IF Len(ds) = 0 THEN 0
             ELSE 10 * NatOf(SubSeq(ds, 1, Len(ds) - 1)) + DigitValue(ds[Len(ds)])

\* int(s) for a str s that is an int literal.
ParseInt(s) == IF s[1] = "-" THEN 0 - NatOf(Unsigned(s)) ELSE NatOf(Unsigned(s))

---------------------------------------------------------------------------
\* The collection behind self.connection.api, and its cursors

Kinds == {"a", "b"}

Documents == {[k \in {"_id", "kind"} |-> IF k = "_id" THEN i ELSE kd] :
                 i \in 1..MaxDocs, kd \in Kinds}

\* A document matches a filter when it has every key of it with that value.
Matches(doc, filter) ==
    \A k \in DOMAIN filter : k \in DOMAIN doc /\ doc[k] = filter[k]

RECURSIVE OrderBy(_, _)
OrderBy(S, dir) ==
    IF S = {} THEN <<>>
    ELSE LET m == CHOOSE d \in S :
                     \A e \in S : dir * d["_id"] <= dir * e["_id"]
         IN  <<m>> \o OrderBy(S \ {m}, dir)

\* The matching documents in the order of the sort (None: natural order,
\* the order of insertion, which is that of _id).
Sorted(filter, srt) ==
    OrderBy({d \in collection : Matches(d, filter)},
            IF srt = None THEN 1 ELSE srt[1][2])

\* api.find(filter, sort=srt).count(): the count ignores skip and limit.
Count(filter, srt) == Len(Sorted(filter, srt))

\* Iterating api.find(filter, limit=, skip=, sort=): a limit of 0 is no
\* limit; the server refuses a negative skip and the driver raises.
Find(filter, limit, skip, srt) ==
    LET all == Sorted(filter, srt)
        rest == SubSeq(all, skip + 1, Len(all))
    IN  IF skip < 0
        THEN [raised |-> Some("OperationFailure"), items |-> <<>>]
        ELSE [raised |-> None,
              items |-> IF limit = 0 \/ Len(rest) <= limit THEN rest
                        ELSE SubSeq(rest, 1, limit)]

\* api.find_one(filter, sort=srt): the first matching document or None.
FindOne(filter, srt) ==
    IF Count(filter, srt) = 0 THEN None ELSE Some(Sorted(filter, srt)[1])

---------------------------------------------------------------------------
\* Class attributes and instances

DEFAULT_PAGINATION == 25

context_object_name == None
template_name == None

\* PagelessListView.show_id
show_id == FALSE

\* The name of the collection of the connection, as it appears in the
\* default template name.
CollectionName == "docs"

\* A fresh instance of DetailView or PagelessListView (as_view makes one
\* per request): the instance attributes of BaseMongoMixin.
BaseMongoMixin == [results |-> None]

\* A fresh instance of ListView: the attributes of BasePaginatedMongoMixin
\* on top of those of BaseMongoMixin.
BasePaginatedMongoMixin ==
    [results |-> None, pages |-> None, page |-> None,
     next_page_number |-> None, previous_page_number |-> None,
     offset |-> None, page_range |-> None]

\* A dict key for context_object_name (None is a key of its own).
KeyOf(name) == IF name = None THEN "None" ELSE name[1]

\* BaseMongoMixin.get_context_data
Base_get_context_data(self, kwargs) ==
    LET context == Update([k \in {"object_list"} |-> self.results[1]], kwargs)
    IN  Update(context,
               [k \in {KeyOf(context_object_name)} |-> self.results[1]])

\* BasePaginatedMongoMixin.get_context_data
Paginated_get_context_data(self, kwargs) ==
    LET context == Base_get_context_data(self, kwargs)
        own == {"page", "pages", "page_range",
                "previous_page_number", "next_page_number"}
    IN  Update(context, [k \in own |-> self[k]])

\* BaseMongoMixin.get_template_name
get_template_name(class_type) ==
    IF template_name = None
    THEN <<CollectionName, "/", CollectionName, "_", class_type, ".html">>
    ELSE template_name[1]

\* BaseMongoMixin.render_to_response
render_to_response(req, class_type, context) ==
    [type |-> "TemplateResponse", request |-> req, context |-> context,
     template |-> get_template_name(class_type)]

HttpResponseRedirect(url) == [type |-> "HttpResponseRedirect", url |-> url]

\* An exception that leaves get(): Django answers Http404 with a 404 page
\* and any other exception with a server error.
Raised(exc) == [type |-> exc]

\* get() falls off its end and returns None.
ReturnedNone == [type |-> "None"]

\* An object is true in a condition: None and the empty list or dict are not.
Truthy(v) == v # None /\ DOMAIN v[1] # {}

---------------------------------------------------------------------------
\* What a method call leaves: the instance, and the exception it raised or
\* the value it returned.

Return(self, value) == [self |-> self, raised |-> None, ret |-> value]
Raise(self, exc) == [self |-> self, raised |-> Some(exc), ret |-> None]

\* FilterOf with the update turned round: the URL keyword arguments
\* override the query.
FilterOf_KwargsOverride(kwargs) ==
    IF Truthy(query) THEN Update(query[1], kwargs) ELSE kwargs

\* The filter of a get_object or get_list call.
FilterOf(kwargs) == IF Truthy(query) THEN Update(kwargs, query[1]) ELSE kwargs

---------------------------------------------------------------------------
\* DetailView

DetailView_get_object(self, kwargs) ==
    LET obj_query == FindOne(FilterOf(kwargs), sort)
    IN  IF obj_query = None
        THEN Raise(self, "Http404")
        ELSE Return(self, <<obj_query[1], "query">>)

DetailView_get(self, req) ==
    LET c1 == DetailView_get_object(self, EmptyDict)
        c2 == DetailView_get_object(c1.self, req.kwargs)
        s2 == [c2.self EXCEPT !.results = Some(c2.ret[1])]
        c3 == DetailView_get_object(c1.self, EmptyDict)
        c4 == DetailView_get_object(c3.self, EmptyDict)
    IN  IF c1.raised # None THEN [self |-> c1.self, response |-> Raised(c1.raised[1])]
        ELSE IF c1.ret[2] = "query"
        THEN IF c2.raised # None
             THEN [self |-> c2.self, response |-> Raised(c2.raised[1])]
             ELSE IF ~Truthy(s2.results)
             THEN [self |-> s2, response |-> Raised("Http404")]
             ELSE [self |-> s2,
                   response |-> render_to_response(req, "detail",
                                    Base_get_context_data(s2, EmptyDict))]
        ELSE IF c3.raised # None
        THEN [self |-> c3.self, response |-> Raised(c3.raised[1])]
        ELSE IF c3.ret[2] = "redirect"
        THEN IF c4.raised # None
             THEN [self |-> c4.self, response |-> Raised(c4.raised[1])]
             ELSE [self |-> c4.self, response |-> HttpResponseRedirect(c4.ret[1])]
        ELSE [self |-> c3.self, response |-> ReturnedNone]

---------------------------------------------------------------------------
\* PagelessListView

\* The dict that get_list makes of a document: a copy, with 'id' the str of
\* its _id when with_id, and without '_id'.
ItemDict(item, with_id) ==
    [k \in ((DOMAIN item) \cup (IF with_id THEN {"id"} ELSE {})) \ {"_id"} |->
        IF k = "id" /\ with_id THEN Str(item["_id"]) ELSE item[k]]

QueryList(items, with_id) ==
    [i \in 1..Len(items) |-> ItemDict(items[i], with_id)]

PagelessListView_get_list(self, kwargs) ==
    LET obj_query == Find(FilterOf(kwargs), 0, 0, sort)
    IN  IF obj_query.raised # None THEN Raise(self, obj_query.raised[1])
        ELSE Return(self, <<QueryList(obj_query.items, show_id), "query">>)

PagelessListView_get(self, req) ==
    LET c1 == PagelessListView_get_list(self, EmptyDict)
        c2 == PagelessListView_get_list(c1.self, req.kwargs)
        s2 == [c2.self EXCEPT !.results = Some(c2.ret[1])]
        c3 == PagelessListView_get_list(c1.self, EmptyDict)
        c4 == PagelessListView_get_list(c3.self, EmptyDict)
    IN  IF c1.raised # None THEN [self |-> c1.self, response |-> Raised(c1.raised[1])]
        ELSE IF c1.ret[2] = "query"
        THEN IF c2.raised # None
             THEN [self |-> c2.self, response |-> Raised(c2.raised[1])]
             ELSE IF Len(s2.results[1]) = 0
             THEN [self |-> s2, response |-> Raised("Http404")]
             ELSE [self |-> s2,
                   response |-> render_to_response(req, "list",
                                    Base_get_context_data(s2, req.kwargs))]
        ELSE IF c3.raised # None
        THEN [self |-> c3.self, response |-> Raised(c3.raised[1])]
        ELSE IF c3.ret[2] = "redirect"
        THEN IF c4.raised # None
             THEN [self |-> c4.self, response |-> Raised(c4.raised[1])]
             ELSE [self |-> c4.self, response |-> HttpResponseRedirect(c4.ret[1])]
        ELSE [self |-> c3.self, response |-> ReturnedNone]

---------------------------------------------------------------------------
\* ListView

\* NumPages without the page of the remainder.
NumPages_NoRemainder(total_count, limit) == total_count \div limit

\* The number of pages of total_count documents, limit to a page.
NumPages(total_count, limit) ==
    IF (total_count % limit) > 0
    THEN (total_count \div limit) + 1
    ELSE total_count \div limit

PageRange(pages) == IF pages = 1 THEN <<1>> ELSE Range(1, pages + 1)

\* Offset counting the pages from 0.
Offset_FromZero(page, limit) == page * limit

\* The offset of the current page.
Offset(page, limit) == (page - 1) * limit

\* SetPageNumbers without the case of the last page.
SetPageNumbers_NoLastPage(self) ==
    LET page == self.page[1]
        pages == self.pages[1]
    IN  IF page = 1 /\ page = pages THEN self
        ELSE IF page = 1 THEN [self EXCEPT !.next_page_number = Some(2)]
        ELSE [self EXCEPT !.next_page_number = Some(page + 1),
                          !.previous_page_number = Some(page - 1)]

\* The previous and next page numbers of a page that is not past the last.
SetPageNumbers(self) ==
    LET page == self.page[1]
        pages == self.pages[1]
    IN  IF page = 1 /\ page = pages THEN self
        ELSE IF page = 1 THEN [self EXCEPT !.next_page_number = Some(2)]
        ELSE IF page = pages
        THEN [self EXCEPT !.previous_page_number = Some(page - 1)]
        ELSE [self EXCEPT !.next_page_number = Some(page + 1),
                          !.previous_page_number = Some(page - 1)]

RedirectUrl(req, page) == <<req.PATH_INFO, "?page=">> \o Str(page)

\* PageQuery without the limit.
PageQuery_NoLimit(self, kwargs) ==
    LET obj_query == Find(kwargs, 0, self.offset[1], sort)
    IN  IF obj_query.raised # None THEN Raise(self, obj_query.raised[1])
        ELSE Return(self, <<QueryList(obj_query.items, TRUE), "query">>)

\* The query of the current page and the list made of its documents.
PageQuery(self, kwargs) ==
    LET obj_query == Find(kwargs, pagination_limit, self.offset[1], sort)
    IN  IF obj_query.raised # None THEN Raise(self, obj_query.raised[1])
        ELSE Return(self, <<QueryList(obj_query.items, TRUE), "query">>)

\* get_list from the test of the page on: self.page is set.
PageDispatch(self, req, kwargs) ==
    LET page == self.page[1]
        pages == self.pages[1]
    IN  IF page = 0 THEN Return(self, <<RedirectUrl(req, 1), "redirect">>)
        ELSE IF page <= pages
        THEN PageQuery(SetPageNumbers(
                 [self EXCEPT !.offset = Some(Offset(page, pagination_limit))]),
                 kwargs)
        ELSE Return(self, <<RedirectUrl(req, pages), "redirect">>)

ListView_get_list(self, req, kwargs) ==
    LET kw == FilterOf(kwargs)
        total_count == Count(kw, sort)
        pages == NumPages(total_count, pagination_limit)
        s1 == [self EXCEPT !.pages = Some(pages),
                           !.page_range = Some(PageRange(pages))]
    IN  IF "page" \notin DOMAIN req.GET
        THEN PageDispatch([s1 EXCEPT !.page = Some(1), !.offset = Some(0)],
                          req, kw)
        ELSE IF ~IsIntLiteral(req.GET["page"]) THEN Raise(s1, "ValueError")
        ELSE PageDispatch([s1 EXCEPT !.page = Some(ParseInt(req.GET["page"]))],
                          req, kw)

ListView_get(self, req) ==
    LET c1 == ListView_get_list(self, req, EmptyDict)
        c2 == ListView_get_list(c1.self, req, EmptyDict)
        s2 == [c2.self EXCEPT !.results = Some(c2.ret[1])]
        c3 == ListView_get_list(c1.self, req, EmptyDict)
        c4 == ListView_get_list(c3.self, req, EmptyDict)
    IN  IF c1.raised # None THEN [self |-> c1.self, response |-> Raised(c1.raised[1])]
        ELSE IF c1.ret[2] = "query"
        THEN IF c2.raised # None
             THEN [self |-> c2.self, response |-> Raised(c2.raised[1])]
             ELSE IF Len(s2.results[1]) = 0
             THEN [self |-> s2, response |-> Raised("Http404")]
             ELSE [self |-> s2,
                   response |-> render_to_response(req, "list",
                                    Paginated_get_context_data(s2, req.kwargs))]
        ELSE IF c3.raised # None
        THEN [self |-> c3.self, response |-> Raised(c3.raised[1])]
        ELSE IF c3.ret[2] = "redirect"
        THEN IF c4.raised # None
             THEN [self |-> c4.self, response |-> Raised(c4.raised[1])]
             ELSE [self |-> c4.self, response |-> HttpResponseRedirect(c4.ret[1])]
        ELSE [self |-> c3.self, response |-> ReturnedNone]

---------------------------------------------------------------------------
\* Requests

\* The values of the 'page' parameter: the decimal ints of -MaxPage..MaxPage
\* and strings that int() reads otherwise or refuses.
PageParams ==
    {Str(n) : n \in (0 - MaxPage)..MaxPage}
    \cup {<<>>, <<"x">>, <<"-", "0">>, <<"0", "1">>}

Paths == {"/docs/"}

\* The keyword arguments that the URL pattern captures.
UrlKwargs == {EmptyDict} \cup {[k \in {"kind"} |-> kd] : kd \in Kinds}

GETs == {EmptyDict} \cup {[k \in {"page"} |-> p] : p \in PageParams}

Request(cls, path, get, kwargs) ==
    [kwargs |-> kwargs, PATH_INFO |-> path, GET |-> get, cls |-> cls]

Queries == {None} \cup {Some([k \in {"kind"} |-> kd]) : kd \in Kinds}

Sorts == {None, Some(<<"_id", -1>>)}

\* The page sizes that the views are configured with: the default and the
\* small ones that split the collections of the model into pages.
Limits == 1..MaxLimit \cup {DEFAULT_PAGINATION}

---------------------------------------------------------------------------
\* The state machine

Init ==
    /\ collection = {}
    /\ query \in Queries
    /\ sort \in Sorts
    /\ pagination_limit \in Limits
    /\ request = None
    /\ view = None
    /\ response = None

\* request, view and response record the request served last from the
\* collection as it is: a change of the collection drops the record.
Forget ==
    /\ request' = None
    /\ view' = None
    /\ response' = None
    /\ UNCHANGED <<query, sort, pagination_limit>>

\* Another client inserts a document.
Insert(doc) ==
    /\ \A d \in collection : d["_id"] # doc["_id"]
    /\ collection' = collection \cup {doc}
    /\ Forget

\* Another client removes a document.
Remove(doc) ==
    /\ doc \in collection
    /\ collection' = collection \ {doc}
    /\ Forget

Serve(req, out) ==
    /\ request' = Some(req)
    /\ view' = Some(out.self)
    /\ response' = Some(out.response)
    /\ UNCHANGED <<collection, query, sort, pagination_limit>>

\* as_view makes a fresh instance of the view for every request.
DetailGet(path, kwargs) ==
    LET req == Request("DetailView", path, EmptyDict, kwargs)
    IN  Serve(req, DetailView_get(BaseMongoMixin, req))

PagelessListGet(path, kwargs) ==
    LET req == Request("PagelessListView", path, EmptyDict, kwargs)
    IN  Serve(req, PagelessListView_get(BaseMongoMixin, req))

ListGet(path, get, kwargs) ==
    LET req == Request("ListView", path, get, kwargs)
    IN  Serve(req, ListView_get(BasePaginatedMongoMixin, req))

Next ==
    \/ \E doc \in Documents : Insert(doc)
    \/ \E doc \in Documents : Remove(doc)
    \/ \E path \in Paths, kw \in UrlKwargs : DetailGet(path, kw)
    \/ \E path \in Paths, kw \in UrlKwargs : PagelessListGet(path, kw)
    \/ \E path \in Paths, get \in GETs : ListGet(path, get, EmptyDict)

Spec == Init /\ [][Next]_vars

---------------------------------------------------------------------------
\* What the properties speak of

\* The request served last was one of the view class cls.
Served(cls) == request # None /\ request[1].cls = cls

Rendered == response[1].type = "TemplateResponse"

\* The documents of the collection that have every key of the filter f.
MatchingDocs(f) ==
    {d \in collection : \A k \in DOMAIN f : d[k] = f[k]}

\* The filter of a view for URL keyword arguments kw: kw updated with the
\* query of the view.
ViewFilter(kw) ==
    [k \in (DOMAIN kw) \cup (IF query = None THEN {} ELSE DOMAIN query[1]) |->
        IF query # None /\ k \in DOMAIN query[1] THEN query[1][k] ELSE kw[k]]

\* The number of documents that ListView pages: its get passes no keyword
\* argument to get_list.
TotalCount == Cardinality(MatchingDocs(ViewFilter(EmptyDict)))

\* The least k with k * d >= n.
Ceiling(n, d) == CHOOSE k \in 0..n : k * d >= n /\ \A j \in 0..n : j * d >= n => k <= j

Pages == Ceiling(TotalCount, pagination_limit)

Min(a, b) == IF a < b THEN a ELSE b

\* The request carries a 'page' parameter that reads as an int.
HasIntPage == "page" \in DOMAIN request[1].GET /\ IsIntLiteral(request[1].GET["page"])

\* The page that the request asks for.
RequestedPage == IF "page" \in DOMAIN request[1].GET
                 THEN ParseInt(request[1].GET["page"]) ELSE 1

\* The request asks for one of the pages 1..Pages.
AsksExistingPage ==
    /\ Served("ListView")
    /\ "page" \in DOMAIN request[1].GET => HasIntPage
    /\ RequestedPage \in 1..Pages

\* The response of ListView.get to a request for page p now.
ResponseTo(p) ==
    ListView_get(BasePaginatedMongoMixin,
        Request("ListView", "/docs/", [k \in {"page"} |-> Str(p)], EmptyDict)
    ).response

\* The documents of page p as ListView.get renders them now.
PageOf(p) == ResponseTo(p).context["object_list"]

RECURSIVE PagesUpTo(_)
PagesUpTo(p) == IF p = 0 THEN <<>> ELSE PagesUpTo(p - 1) \o PageOf(p)

---------------------------------------------------------------------------
\* The properties

\* C1: a response that ListView.get renders carries at most
\* pagination_limit documents in object_list, whatever the number of
\* documents, the limit and the page asked for.
C1_AtMostLimitPerPage ==
    (Served("ListView") /\ Rendered) =>
        Len(response[1].context["object_list"]) <= pagination_limit

\* A full page of a list that has more documents than one page holds.
C1_Witness ==
    /\ Served("ListView") /\ Rendered
    /\ Len(response[1].context["object_list"]) = pagination_limit
    /\ TotalCount > pagination_limit

\* C2: for every integer 'page' parameter outside 1..pages ListView.get
\* answers with a redirect, never a page or an error: page 0 redirects to
\* '<path>?page=1' and a page greater than pages to '<path>?page=<pages>'.
C2_RedirectOutsideRange ==
    (Served("ListView") /\ HasIntPage /\ RequestedPage \notin 1..Pages) =>
        /\ response[1].type = "HttpResponseRedirect"
        /\ RequestedPage = 0 =>
              response[1].url = <<request[1].PATH_INFO, "?page=">> \o Str(1)
        /\ RequestedPage > Pages =>
              response[1].url = <<request[1].PATH_INFO, "?page=">> \o Str(Pages)

\* C3: when the filter matches no document, ListView.get raises Http404
\* for a request without 'page' parameter and for any page value.
C3_EmptyListIs404 ==
    (Served("ListView") /\ TotalCount = 0) => response[1].type = "Http404"

\* C4: DetailView.get and PagelessListView.get raise Http404 if and only if
\* no document matches the URL keyword arguments updated with the query of
\* the view; otherwise they render a template response, and
\* PagelessListView renders every matching document.
C4_NotFoundIffNoMatch ==
    (Served("DetailView") \/ Served("PagelessListView")) =>
        LET docs == MatchingDocs(ViewFilter(request[1].kwargs))
        IN  /\ response[1].type = "Http404" <=> docs = {}
            /\ docs # {} => Rendered
            /\ (docs # {} /\ Served("PagelessListView")) =>
                  LET list == response[1].context["object_list"]
                  IN  /\ Len(list) = Cardinality(docs)
                      /\ \A d \in docs : \E i \in 1..Len(list) :
                            list[i] = ItemDict(d, show_id)

\* PagelessListView renders the two documents that match URL keyword
\* arguments.
C4_Witness ==
    /\ Served("PagelessListView") /\ Rendered
    /\ DOMAIN request[1].kwargs # {}
    /\ Len(response[1].context["object_list"]) >= 2
    /\ Cardinality(collection) > Len(response[1].context["object_list"])

\* C5: after ListView.get_list, pages is the ceiling of the total count
\* over pagination_limit (0 for no document) and page_range lists exactly
\* 1..pages in increasing order.
C5_PagesIsCeiling ==
    Served("ListView") =>
        /\ view[1].pages = Some(Pages)
        /\ view[1].page_range = Some([i \in 1..Pages |-> i])

\* The count is not a multiple of the limit and fills more than one page.
C5_Witness ==
    /\ Served("ListView")
    /\ TotalCount % pagination_limit # 0
    /\ TotalCount > pagination_limit
    /\ Len(view[1].page_range[1]) >= 2

\* C6: for a page p of 1..pages (1 without 'page' parameter) ListView skips
\* (p - 1) * pagination_limit documents and renders those at the positions
\* offset .. min(offset + pagination_limit, total) - 1 of the sorted result:
\* the pages 1..pages hold every matching document once, and none is empty.
C6_PageWindows ==
    /\ AsksExistingPage =>
          LET all == Sorted(ViewFilter(EmptyDict), sort)
              offset == (RequestedPage - 1) * pagination_limit
              last == Min(offset + pagination_limit, TotalCount)
              list == response[1].context["object_list"]
          IN  /\ Rendered
              /\ view[1].offset = Some(offset)
              /\ Len(list) = last - offset
              /\ Len(list) > 0
              /\ \A i \in 1..Len(list) : list[i] = ItemDict(all[offset + i], TRUE)
    /\ \A p \in 1..Pages : ResponseTo(p).type = "TemplateResponse"
    /\ PagesUpTo(Pages) = QueryList(Sorted(ViewFilter(EmptyDict), sort), TRUE)

\* A last page that is shorter than the pages before it.
C6_Witness ==
    /\ AsksExistingPage /\ Rendered
    /\ RequestedPage = Pages
    /\ RequestedPage > 1
    /\ Len(response[1].context["object_list"]) < pagination_limit

\* C7: in a context that ListView.get renders, next_page_number is
\* page + 1 if page < pages and None otherwise, and previous_page_number is
\* page - 1 if page > 1 and None otherwise: one that is set is in 1..pages.
C7_PageNumbers ==
    (Served("ListView") /\ Rendered) =>
        LET context == response[1].context
            page == context["page"][1]
            pages == context["pages"][1]
            next == context["next_page_number"]
            previous == context["previous_page_number"]
        IN  /\ next = IF page < pages THEN Some(page + 1) ELSE None
            /\ previous = IF page > 1 THEN Some(page - 1) ELSE None
            /\ next # None => next[1] \in 1..pages
            /\ previous # None => previous[1] \in 1..pages

\* The last of several pages: it has a previous and no next page.
C7_Witness ==
    /\ Served("ListView") /\ Rendered
    /\ response[1].context["page"] = response[1].context["pages"]
    /\ response[1].context["page"][1] >= 3
    /\ response[1].context["next_page_number"] = None
    /\ response[1].context["previous_page_number"] # None

============================================================================
